---- MODULE Spec2Model ----
(***************************************************************************)
(* The host-facing operations of ext/node/lib.rs (the `op_require_*`       *)
(* functions) as a state machine.  A string is a sequence of characters    *)
(* (one-character strings; the directory name "node_modules" is kept as    *)
(* one indivisible character, since no operation looks inside it).  A      *)
(* Path/PathBuf is such a string, as in Rust, and std::path's component    *)
(* parsing, parent(), join() and ends_with() are computed on it.           *)
(***************************************************************************)
EXTENDS Integers, Sequences, FiniteSets, TLC

VARIABLES pc, op, args, env, result, log, puts, paths, maybe_parent

vars == <<pc, op, args, env, result, log, puts, paths, maybe_parent>>

\* ------------------------------------------------------------------ bounds
\* deepest `from` handed to node_module_paths
MaxDepth == 3
\* longest request string handed to is_request_relative
MaxReqLen == 4
\* longest path part and longest part list handed to path_resolve
MaxPartLen == 2
MaxParts == 2

\* ------------------------------------------------------------- Option/Result
None == [some |-> FALSE]
Some(v) == [some |-> TRUE, val |-> v]
Ok(v) == [tag |-> "Ok", val |-> v]
Err(e) == [tag |-> "Err", err |-> e]
Pending == [tag |-> "Pending"]
Unit == "()"

\* ------------------------------------------------------------------ strings
StartsWith(s, p) == Len(s) >= Len(p) /\ SubSeq(s, 1, Len(p)) = p
EndsWithChar(s, c) == Len(s) > 0 /\ s[Len(s)] = c
Last(s) == s[Len(s)]

RECURSIVE StringsUpTo(_, _)
StringsUpTo(alphabet, n) ==
    IF n = 0 THEN {<<>>}
    ELSE LET shorter == StringsUpTo(alphabet, n - 1)
         IN  shorter \cup {Append(s, c) : s \in shorter, c \in alphabet}

RECURSIVE ListsUpTo(_, _)
ListsUpTo(S, n) ==
    IF n = 0 THEN {<<>>}
    ELSE LET shorter == ListsUpTo(S, n - 1)
         IN  shorter \cup {Append(l, x) : l \in shorter, x \in S}

\* ---------------------------------------------------------------- std::path
\* The segments of s between separators, empty ones included.
RECURSIVE SplitSlash(_)
SplitSlash(s) ==
    IF s = <<>> THEN << <<>> >>
    ELSE LET rest == SplitSlash(Tail(s))
         IN  IF Head(s) = "/" THEN << <<>> >> \o rest
             ELSE << <<Head(s)>> \o Head(rest) >> \o Tail(rest)

has_root(s) == StartsWith(s, <<"/">>)
is_absolute(s) == has_root(s)

\* Components::include_cur_dir: a leading "." of a relative path is a component.
include_cur_dir(s) ==
    /\ ~has_root(s)
    /\ \/ s = <<".">>
       \/ StartsWith(s, <<".", "/">>)

RootDir == [kind |-> "RootDir", name |-> <<"/">>]
CurDir == [kind |-> "CurDir", name |-> <<".">>]
ParentDir == [kind |-> "ParentDir", name |-> <<".", ".">>]
Normal(n) == [kind |-> "Normal", name |-> n]

parse_single_component(seg) ==
    IF seg = <<".", ".">> THEN ParentDir ELSE Normal(seg)

\* Path::components(): the root, then every segment that is neither empty nor
\* ".", a leading "." of a relative path being the one "." that is kept.
RECURSIVE BodyComponents(_)
BodyComponents(segs) ==
    IF segs = <<>> THEN <<>>
    ELSE IF Head(segs) = <<>> \/ Head(segs) = <<".">>
         THEN BodyComponents(Tail(segs))
         ELSE <<parse_single_component(Head(segs))>> \o BodyComponents(Tail(segs))

Components(s) ==
    IF s = <<>> THEN <<>>
    ELSE (IF has_root(s) THEN <<RootDir>> ELSE <<>>)
         \o (IF include_cur_dir(s) THEN <<CurDir>> ELSE <<>>)
         \o BodyComponents(SplitSlash(s))

\* Components::len_before_body
len_before_body(s) ==
    (IF has_root(s) THEN 1 ELSE 0) + (IF include_cur_dir(s) THEN 1 ELSE 0)

\* The place of the last separator of the body of s, 0 when it has none.
RECURSIVE LastSep(_, _)
LastSep(s, lb) ==
    IF Len(s) <= lb THEN 0
    ELSE IF s[Len(s)] = "/" THEN Len(s)
    ELSE LastSep(SubSeq(s, 1, Len(s) - 1), lb)

LastSeg(s, lb) ==
    LET i == LastSep(s, lb)
    IN  IF i = 0 THEN SubSeq(s, lb + 1, Len(s)) ELSE SubSeq(s, i + 1, Len(s))

DropLastSeg(s, lb) ==
    LET i == LastSep(s, lb)
    IN  IF i = 0 THEN SubSeq(s, 1, lb) ELSE SubSeq(s, 1, i - 1)

\* Components::trim_right: trailing separators and "." segments are no components.
RECURSIVE TrimRight(_, _)
TrimRight(s, lb) ==
    IF Len(s) > lb /\ (LastSeg(s, lb) = <<>> \/ LastSeg(s, lb) = <<".">>)
    THEN TrimRight(DropLastSeg(s, lb), lb)
    ELSE s

\* Path::parent(): None for the root and for the empty path, else the path
\* without its last component.
Parent(s) ==
    LET cs == Components(s)
        lb == len_before_body(s)
        t  == TrimRight(s, lb)
    IN  IF cs = <<>> \/ Last(cs).kind = "RootDir" THEN None
        ELSE IF Len(t) = lb THEN Some(<<>>)
        ELSE Some(TrimRight(DropLastSeg(t, lb), lb))

\* PathBuf::push / Path::join: an absolute part replaces the buffer.
Join(buf, part) ==
    IF is_absolute(part) THEN part
    ELSE IF buf # <<>> /\ ~EndsWithChar(buf, "/") THEN buf \o <<"/">> \o part
    ELSE buf \o part

\* PathBuf::pop
Pop(buf) == IF Parent(buf).some THEN Parent(buf).val ELSE buf

\* Path::ends_with: child's components are a suffix of self's components.
PathEndsWith(s, child) ==
    LET a == Components(s)
        b == Components(child)
    IN  /\ Len(a) >= Len(b)
        /\ SubSeq(a, Len(a) - Len(b) + 1, Len(a)) = b

\* Path::file_name
FileName(s) ==
    LET cs == Components(s)
    IN  IF cs # <<>> /\ Last(cs).kind = "Normal" THEN Some(Last(cs).name) ELSE None

\* to_string_lossy().to_string() of a path that is valid UTF-8
to_string(p) == p

\* deno_core::normalize_path
RECURSIVE NormalizeFrom(_, _)
NormalizeFrom(ret, cs) ==
    IF cs = <<>> THEN ret
    ELSE LET c == Head(cs)
         IN  NormalizeFrom(
                 CASE c.kind = "RootDir" -> Join(ret, c.name)
                   [] c.kind = "CurDir" -> ret
                   [] c.kind = "ParentDir" -> Pop(ret)
                   [] OTHER -> Join(ret, c.name),
                 Tail(cs))

normalize_path(p) == NormalizeFrom(<<>>, Components(p))

\* the process's working directory, as std::env::current_dir() answers
Cwd == <<"/", "w">>

\* deno_core::resolve_path(..).unwrap().to_file_path().unwrap()
resolve_path(path_str) == normalize_path(Join(Cwd, path_str))

\* ------------------------------------------------------------ the call log
\* One record per call an operation makes into a collaborator.
Event(ev, path, out) == [ev |-> ev, path |-> path, out |-> out]

PermissionDenied(path) == [kind |-> "PermissionDenied", path |-> path]

\* ensure_read_permission::<P>(state, file_path): the npm-resolver's answer.
ensure_read_permission(file_path, granted) ==
    Event("ensure_read_permission", file_path,
          IF granted THEN Ok(Unit) ELSE Err(PermissionDenied(file_path)))

\* ------------------------------------------------- op_require_node_module_paths
NodeModules == <<"node_modules">>
RootNodeModules == <<"/", "node_modules">>

Segs == {<<"a">>, <<"b">>, <<"c">>, NodeModules}

RECURSIVE FromSegs(_)
FromSegs(segs) ==
    IF segs = <<>> THEN <<>>
    ELSE <<"/">> \o Head(segs) \o FromSegs(Tail(segs))

\* the absolute `from` values: "/" and "/s1/../sn", n <= MaxDepth
AbsPaths == {IF l = <<>> THEN <<"/">> ELSE FromSegs(l) : l \in ListsUpTo(Segs, MaxDepth)}

\* line 230: the test that is meant to skip a `node_modules` ancestor
skips_ancestor(parent) == PathEndsWith(parent, RootNodeModules)

\* lines 229-235: one iteration of `while let Some(parent) = maybe_parent`
walk_iteration(ps, parent) ==
    IF ~skips_ancestor(parent)
    THEN [paths |-> Append(ps, to_string(Join(parent, NodeModules))),
          maybe_parent |-> Parent(parent)]
    ELSE [paths |-> ps, maybe_parent |-> Some(parent)]

\* lines 199-226: resolve `from`, the permission gate, the root short-circuit
NodeModulePathsCall ==
    /\ pc = "idle"
    /\ \E from \in AbsPaths, granted \in BOOLEAN :
         LET p == resolve_path(from)
             gate == ensure_read_permission(p, granted)
         IN  /\ op' = "node_module_paths"
             /\ args' = [from |-> from, path |-> p]
             /\ env' = [granted |-> granted]
             /\ log' = <<Event("current_dir", Cwd, Ok(Cwd)), gate>>
             /\ puts' = 0
             /\ IF ~granted
                THEN /\ result' = gate.out
                     /\ pc' = "done"
                     /\ UNCHANGED <<paths, maybe_parent>>
                ELSE IF to_string(p) = <<"/">>
                THEN /\ result' = Ok(<<RootNodeModules>>)
                     /\ pc' = "done"
                     /\ UNCHANGED <<paths, maybe_parent>>
                ELSE /\ result' = Pending
                     /\ pc' = "walk"
                     /\ paths' = <<>>
                     /\ maybe_parent' = Some(p)

NodeModulePathsWalk ==
    /\ pc = "walk"
    /\ maybe_parent.some
    /\ LET it == walk_iteration(paths, maybe_parent.val)
       IN  /\ paths' = it.paths
           /\ maybe_parent' = it.maybe_parent
    /\ UNCHANGED <<pc, op, args, env, result, log, puts>>

\* lines 237-242: the loop is over; append "/node_modules" and return
NodeModulePathsReturn ==
    /\ pc = "walk"
    /\ ~maybe_parent.some
    /\ result' = Ok(Append(paths, RootNodeModules))
    /\ pc' = "done"
    /\ UNCHANGED <<op, args, env, log, puts, paths, maybe_parent>>

\* ------------------------------------------------------- the collaborators
\* What the filesystem, the PackageJson store, the resolution module and the
\* npm-resolver answer is the environment's choice, one per call.
Io(path) == [kind |-> "Io", path |-> path]

PackageJsonName == <<"package.json">>

\* std::fs::metadata(path): the kind of the file the path leads to (symlinks
\* followed), or an error.  "other" is a device, a FIFO or a socket.
MetadataAnswers == {"file", "dir", "other", "NotFound", "Denied"}
metadata(path, answer) ==
    Event("metadata", path,
          IF answer \in {"file", "dir", "other"} THEN Ok(answer) ELSE Err(Io(path)))

\* Path::canonicalize() and std::fs::read_to_string(path)
canonicalize(path, found) ==
    Event("canonicalize", path, IF found THEN Ok(<<"/", "r">>) ELSE Err(Io(path)))
read_to_string(path, found) ==
    Event("read_to_string", path, IF found THEN Ok(<<"t">>) ELSE Err(Io(path)))

\* PackageJson::load(resolver, permissions, path): a refusal of its own
\* permission check, an invalid document, or the document.
PackageNames == {None, Some(<<"f">>)}
Fields == {None, Some("json")}
LoadAnswers ==
    {[tag |-> "Err", kind |-> k] : k \in {"PermissionDenied", "InvalidPackageConfig"}}
    \cup {[tag |-> "Ok", name |-> n, exports |-> e, imports |-> i] :
             n \in PackageNames, e \in Fields, i \in Fields}
Document(path, answer) ==
    IF answer.tag = "Err" THEN Err([kind |-> answer.kind, path |-> path])
    ELSE Ok([path |-> path, name |-> answer.name, exports |-> answer.exports,
             imports |-> answer.imports])
PackageJson_load(path, answer) == Event("load", path, Document(path, answer))

\* resolution::get_package_scope_config(url, ..) and get_closest_package_json
ScopePackageJson == <<"/", "p", "/", "package.json">>
get_package_scope_config(referrer, answer) ==
    Event("get_package_scope_config", referrer, Document(ScopePackageJson, answer))
get_closest_package_json(referrer, answer) ==
    Event("get_closest_package_json", referrer, Document(ScopePackageJson, answer))

\* resolution::package_exports_resolve / package_imports_resolve: a path or an error
ResolveAnswers ==
    {"resolved", "InvalidPackageTarget", "PackagePathNotExported", "PackageImportNotDefined"}
Resolved == <<"/", "p", "/", "m">>
resolution(ev, subject, answer) ==
    Event(ev, subject,
          IF answer = "resolved" THEN Ok(Resolved)
          ELSE Err([kind |-> answer, path |-> subject]))

\* resolver.resolve_package_folder_from_package(specifier, referrer, mode)
resolve_package_folder_from_package(specifier, found) ==
    Event("resolve_package_folder_from_package", specifier,
          IF found THEN Ok(<<"/", "p">>)
          ELSE Err([kind |-> "PackageNotFound", path |-> specifier]))

\* Url::from_file_path(p).to_string()
file_url(p) == <<"file://">> \o p

\* .map(|r| Some(r.to_string_lossy().to_string()))
map_some_path(out) == IF out.tag = "Ok" THEN Ok(Some(to_string(out.val))) ELSE out
\* .map(|r| Some(Url::from_file_path(r).unwrap().to_string()))
map_some_url(out) == IF out.tag = "Ok" THEN Ok(Some(file_url(out.val))) ELSE out
\* Result::ok()
ok(out) == IF out.tag = "Ok" THEN Some(out.val) ELSE None

\* what an operation leaves behind: its result, its calls, its state.put count
Outcome(r, l, n) == [result |-> r, log |-> l, puts |-> n]

\* ------------------------------------------------------------- cfg!(windows)
cfg_windows == FALSE

\* ------------------------------------------------ op_require_is_request_relative
is_request_relative_loose(request) ==
    StartsWith(request, <<".", "/">>) \/ StartsWith(request, <<".", ".">>)

op_require_is_request_relative(request) ==
    IF \/ StartsWith(request, <<".", "/">>)
       \/ StartsWith(request, <<".", ".", "/">>)
       \/ request = <<".", ".">>
    THEN TRUE
    ELSE IF cfg_windows /\ StartsWith(request, <<".", "\\">>) THEN TRUE
    ELSE IF cfg_windows /\ StartsWith(request, <<".", ".", "\\">>) THEN TRUE
    ELSE FALSE

\* ---------------------------------------------------------------- path_resolve
\* `for part in &parts[1..] { p = p.join(part) }`
RECURSIVE JoinEach(_, _)
JoinEach(p, rest) ==
    IF rest = <<>> THEN p ELSE JoinEach(Join(p, Head(rest)), Tail(rest))

path_resolve_keeps_joined(parts) ==
    LET catenate(p, part) == IF p # <<>> /\ ~EndsWithChar(p, "/")
                             THEN p \o <<"/">> \o part ELSE p \o part
        all == IF Len(parts) > 1 THEN catenate(parts[1], parts[2]) ELSE parts[1]
    IN  to_string(normalize_path(
            IF Len(parts) > 2 THEN JoinEach(all, SubSeq(parts, 3, Len(parts))) ELSE all))

path_resolve(parts) ==
    LET p == IF Len(parts) > 1
             THEN JoinEach(parts[1], SubSeq(parts, 2, Len(parts)))
             ELSE parts[1]
    IN  to_string(normalize_path(p))

\* ---------------------------------------------------------------- op_require_stat
op_require_stat_probes_first(path, granted, answer) ==
    LET gate == ensure_read_permission(path, granted)
        md == metadata(path, answer)
    IN  IF gate.out.tag = "Err" THEN Outcome(gate.out, <<md, gate>>, 0)
        ELSE IF md.out.tag = "Ok"
        THEN Outcome(IF md.out.val = "file" THEN Ok(0) ELSE Ok(1), <<md, gate>>, 0)
        ELSE Outcome(Ok(-1), <<md, gate>>, 0)

op_require_stat(path, granted, answer) ==
    LET gate == ensure_read_permission(path, granted)
        md == metadata(path, answer)
    IN  IF gate.out.tag = "Err" THEN Outcome(gate.out, <<gate>>, 0)
        ELSE IF md.out.tag = "Ok"
        THEN Outcome(IF md.out.val = "file" THEN Ok(0) ELSE Ok(1), <<gate, md>>, 0)
        ELSE Outcome(Ok(-1), <<gate, md>>, 0)

\* ----------------------------------------------------------- op_require_real_path
op_require_real_path(request, granted, found) ==
    LET gate == ensure_read_permission(request, granted)
        canon == canonicalize(request, found)
    IN  IF gate.out.tag = "Err" THEN Outcome(gate.out, <<gate>>, 0)
        ELSE IF canon.out.tag = "Err" THEN Outcome(canon.out, <<gate, canon>>, 0)
        ELSE Outcome(Ok(to_string(canon.out.val)), <<gate, canon>>, 0)

\* ----------------------------------------------------------- op_require_read_file
op_require_read_file(file_path, granted, found) ==
    LET gate == ensure_read_permission(file_path, granted)
        rd == read_to_string(file_path, found)
    IN  IF gate.out.tag = "Err" THEN Outcome(gate.out, <<gate>>, 0)
        ELSE Outcome(rd.out, <<gate, rd>>, 0)

\* ----------------------------------------------------- op_require_resolve_deno_dir
op_require_resolve_deno_dir(request, parent_filename, found) ==
    LET r == resolve_package_folder_from_package(request, found)
        folder == ok(r.out)
    IN  Outcome(Ok(IF folder.some THEN Some(to_string(folder.val)) ELSE None), <<r>>, 0)

\* ------------------------------------------------ op_require_try_self_parent_path
op_require_try_self_parent_path(has_parent, maybe_parent_filename, maybe_parent_id, cwd_found, granted) ==
    LET cwd == Event("current_dir", <<>>, IF cwd_found THEN Ok(Cwd) ELSE Err(Io(<<>>)))
        gate == ensure_read_permission(Cwd, granted)
    IN  IF ~has_parent THEN Outcome(Ok(None), <<>>, 0)
        ELSE IF maybe_parent_filename.some
        THEN Outcome(Ok(Some(maybe_parent_filename.val)), <<>>, 0)
        ELSE IF maybe_parent_id.some
                /\ maybe_parent_id.val \in {<<"<repl>">>, <<"internal/preload">>}
        THEN IF cwd.out.tag = "Ok"
             THEN IF gate.out.tag = "Err" THEN Outcome(gate.out, <<cwd, gate>>, 0)
                  ELSE Outcome(Ok(Some(to_string(cwd.out.val))), <<cwd, gate>>, 0)
             ELSE Outcome(Ok(None), <<cwd>>, 0)
        ELSE Outcome(Ok(None), <<>>, 0)

\* ----------------------------------------------------------- op_require_try_self
\* lines 495-504: the subpath of a self-reference, None when request is none
try_self_expansion_any_prefix(request, pkg_name) ==
    IF request = pkg_name THEN Some(<<".">>)
    ELSE IF StartsWith(request, pkg_name)
    THEN Some(<<".">> \o SubSeq(request, Len(pkg_name) + 1, Len(request)))
    ELSE None

try_self_expansion(request, pkg_name) ==
    IF request = pkg_name THEN Some(<<".">>)
    ELSE IF StartsWith(request, pkg_name \o <<"/">>)
    THEN Some(<<".">> \o SubSeq(request, Len(pkg_name) + 1, Len(request)))
    ELSE None

op_require_try_self(parent_path, request, scope, answer) ==
    IF ~parent_path.some THEN Outcome(Ok(None), <<>>, 0)
    ELSE
      LET cfg == get_package_scope_config(file_url(parent_path.val), scope)
          pkg == ok(cfg.out)
      IN  IF ~pkg.some THEN Outcome(Ok(None), <<cfg>>, 0)
          ELSE IF ~pkg.val.exports.some THEN Outcome(Ok(None), <<cfg>>, 0)
          ELSE IF ~pkg.val.name.some THEN Outcome(Ok(None), <<cfg>>, 0)
          ELSE
            LET expansion == try_self_expansion(request, pkg.val.name.val)
                r == resolution("package_exports_resolve", expansion.val, answer)
            IN  IF ~expansion.some THEN Outcome(Ok(None), <<cfg>>, 0)
                ELSE Outcome(map_some_path(r.out), <<cfg, r>>, 0)

\* ------------------------------------------------------ op_require_resolve_exports
\* lines 565-571: the package root
pkg_path_ignoring_local_dir(in_npm_package, uses_local_node_modules_dir, modules_path, name) ==
    IF in_npm_package THEN modules_path ELSE path_resolve(<<modules_path, name>>)

pkg_path_of(in_npm_package, uses_local_node_modules_dir, modules_path, name) ==
    IF in_npm_package /\ ~uses_local_node_modules_dir
    THEN modules_path
    ELSE path_resolve(<<modules_path, name>>)

op_require_resolve_exports_swallowing(uses_local_node_modules_dir, modules_path, name, expansion, in_npm, doc, answer) ==
    LET probe == Event("in_npm_package", modules_path, Ok(in_npm))
        pkg_path == pkg_path_of(in_npm, uses_local_node_modules_dir, modules_path, name)
        load == PackageJson_load(Join(pkg_path, PackageJsonName), doc)
        r == resolution("package_exports_resolve", <<".">> \o expansion, answer)
    IN  IF load.out.tag = "Err" THEN Outcome(Ok(None), <<probe, load>>, 0)
        ELSE IF load.out.val.exports.some
        THEN Outcome(map_some_path(r.out), <<probe, load, r>>, 0)
        ELSE Outcome(Ok(None), <<probe, load>>, 0)

op_require_resolve_exports(uses_local_node_modules_dir, modules_path, name, expansion, in_npm, doc, answer) ==
    LET probe == Event("in_npm_package", modules_path, Ok(in_npm))
        pkg_path == pkg_path_of(in_npm, uses_local_node_modules_dir, modules_path, name)
        load == PackageJson_load(Join(pkg_path, PackageJsonName), doc)
        r == resolution("package_exports_resolve", <<".">> \o expansion, answer)
    IN  IF load.out.tag = "Err" THEN Outcome(load.out, <<probe, load>>, 0)
        ELSE IF load.out.val.exports.some
        THEN Outcome(map_some_path(r.out), <<probe, load, r>>, 0)
        ELSE Outcome(Ok(None), <<probe, load>>, 0)

\* ------------------------------------------- op_require_read_closest_package_json
op_require_read_closest_package_json(filename, granted, doc) ==
    LET gate == ensure_read_permission(Parent(filename).val, granted)
        closest == get_closest_package_json(file_url(filename), doc)
    IN  IF gate.out.tag = "Err" THEN Outcome(gate.out, <<gate>>, 0)
        ELSE Outcome(closest.out, <<gate, closest>>, 0)

\* --------------------------------------------------- op_require_read_package_scope
op_require_read_package_scope(package_json_path, doc) ==
    LET load == PackageJson_load(package_json_path, doc)
    IN  Outcome(Ok(ok(load.out)), <<load>>, 0)

\* ---------------------------------------------- op_require_package_imports_resolve
op_require_package_imports_resolve_always(parent_filename, request, granted, doc, answer) ==
    LET gate == ensure_read_permission(parent_filename, granted)
        load == PackageJson_load(Join(parent_filename, PackageJsonName), doc)
        r == resolution("package_imports_resolve", request, answer)
    IN  IF gate.out.tag = "Err" THEN Outcome(gate.out, <<gate>>, 0)
        ELSE IF load.out.tag = "Err" THEN Outcome(load.out, <<gate, load>>, 0)
        ELSE Outcome(map_some_url(r.out), <<gate, load, r>>, 1)

op_require_package_imports_resolve_put_on_success(parent_filename, request, granted, doc, answer) ==
    LET gate == ensure_read_permission(parent_filename, granted)
        load == PackageJson_load(Join(parent_filename, PackageJsonName), doc)
        r == resolution("package_imports_resolve", request, answer)
    IN  IF gate.out.tag = "Err" THEN Outcome(gate.out, <<gate>>, 0)
        ELSE IF load.out.tag = "Err" THEN Outcome(load.out, <<gate, load>>, 0)
        ELSE IF load.out.val.imports.some
        THEN Outcome(map_some_url(r.out), <<gate, load, r>>,
                     IF r.out.tag = "Ok" THEN 1 ELSE 0)
        ELSE Outcome(Ok(None), <<gate, load>>, 0)

op_require_package_imports_resolve(parent_filename, request, granted, doc, answer) ==
    LET gate == ensure_read_permission(parent_filename, granted)
        load == PackageJson_load(Join(parent_filename, PackageJsonName), doc)
        r == resolution("package_imports_resolve", request, answer)
    IN  IF gate.out.tag = "Err" THEN Outcome(gate.out, <<gate>>, 0)
        ELSE IF load.out.tag = "Err" THEN Outcome(load.out, <<gate, load>>, 0)
        ELSE IF load.out.val.imports.some
        THEN Outcome(map_some_url(r.out), <<gate, load, r>>, 1)
        ELSE Outcome(Ok(None), <<gate, load>>, 0)

\* ------------------------------------------------ op_require_resolve_lookup_paths
\* `.unwrap()` of a None ends the operation in a panic.
Panic == [tag |-> "Panic"]

op_require_resolve_lookup_paths(request, maybe_parent_paths, parent_filename) ==
    IF \/ ~StartsWith(request, <<".">>)
       \/ /\ Len(request) > 1
          /\ ~StartsWith(request, <<".", ".">>)
          /\ ~StartsWith(request, <<".", "/">>)
          /\ (~cfg_windows \/ ~StartsWith(request, <<".", "\\">>))
    THEN LET module_paths == <<>>
             ps == IF maybe_parent_paths.some /\ maybe_parent_paths.val # <<>>
                   THEN module_paths \o maybe_parent_paths.val
                   ELSE module_paths
         IN  Outcome(IF ps # <<>> THEN Ok(Some(ps)) ELSE Ok(None), <<>>, 0)
    ELSE LET parent == Parent(parent_filename)
         IN  Outcome(IF parent.some THEN Ok(Some(<<to_string(parent.val)>>)) ELSE Panic,
                     <<>>, 0)

\* ------------------------------------------------------------- the operations
\* The operation ran to its return: what it leaves is what the host sees.
Finish(o, a, e, out) ==
    /\ op' = o
    /\ args' = a
    /\ env' = e
    /\ result' = out.result
    /\ log' = out.log
    /\ puts' = out.puts
    /\ pc' = "done"
    /\ UNCHANGED <<paths, maybe_parent>>

Requests == StringsUpTo({".", "/", "\\", "x"}, MaxReqLen)
PartStrings == StringsUpTo({"/", ".", "a"}, MaxPartLen)
PartLists == ListsUpTo(PartStrings, MaxParts) \ {<<>>}
FilePaths == {<<"/", "a">>, <<"/", "a", "/", "b">>, <<"/", "dev", "/", "null">>}
ModulesPaths == {<<"/", "n">>, <<"/", "n", "/", "f">>}
SelfRequests == {<<"f">>, <<"f", "/", "x">>, <<"f", "b">>, <<"g">>, <<"#", "i">>}
Expansions == {<<>>, <<"/", "x">>}
ParentIds == {<<"<repl>">>, <<"internal/preload">>, <<"m">>}

IsRequestRelative ==
    /\ pc = "idle"
    /\ \E request \in Requests :
         Finish("is_request_relative", [request |-> request], <<>>,
                Outcome(Ok(op_require_is_request_relative(request)), <<>>, 0))

PathResolve ==
    /\ pc = "idle"
    /\ \E parts \in PartLists :
         Finish("path_resolve", [parts |-> parts], <<>>,
                Outcome(Ok(path_resolve(parts)), <<>>, 0))

Stat ==
    /\ pc = "idle"
    /\ \E path \in FilePaths, granted \in BOOLEAN, answer \in MetadataAnswers :
         Finish("stat", [path |-> path], [granted |-> granted, metadata |-> answer],
                op_require_stat(path, granted, answer))

RealPath ==
    /\ pc = "idle"
    /\ \E request \in FilePaths, granted \in BOOLEAN, found \in BOOLEAN :
         Finish("real_path", [path |-> request], [granted |-> granted, found |-> found],
                op_require_real_path(request, granted, found))

ReadFile ==
    /\ pc = "idle"
    /\ \E file_path \in FilePaths, granted \in BOOLEAN, found \in BOOLEAN :
         Finish("read_file", [path |-> file_path], [granted |-> granted, found |-> found],
                op_require_read_file(file_path, granted, found))

ResolveDenoDir ==
    /\ pc = "idle"
    /\ \E request \in SelfRequests, parent_filename \in FilePaths, found \in BOOLEAN :
         Finish("resolve_npm_package_folder",
                [request |-> request, parent_filename |-> parent_filename],
                [found |-> found],
                op_require_resolve_deno_dir(request, parent_filename, found))

TrySelfParentPath ==
    /\ pc = "idle"
    /\ \E has_parent \in BOOLEAN,
          maybe_parent_filename \in {None} \cup {Some(p) : p \in FilePaths},
          maybe_parent_id \in {None} \cup {Some(i) : i \in ParentIds},
          cwd_found \in BOOLEAN, granted \in BOOLEAN :
         Finish("try_self_parent_path",
                [has_parent |-> has_parent, parent_filename |-> maybe_parent_filename,
                 parent_id |-> maybe_parent_id],
                [cwd_found |-> cwd_found, granted |-> granted],
                op_require_try_self_parent_path(has_parent, maybe_parent_filename,
                                                maybe_parent_id, cwd_found, granted))

TrySelf ==
    /\ pc = "idle"
    /\ \E parent_path \in {None} \cup {Some(p) : p \in FilePaths},
          request \in SelfRequests, scope \in LoadAnswers, answer \in ResolveAnswers :
         Finish("try_self", [parent_path |-> parent_path, request |-> request],
                [scope |-> scope],
                op_require_try_self(parent_path, request, scope, answer))

ResolveExports ==
    /\ pc = "idle"
    /\ \E uses_local_node_modules_dir \in BOOLEAN, modules_path \in ModulesPaths,
          name \in {<<"f">>, <<"g">>}, expansion \in Expansions,
          in_npm \in BOOLEAN, doc \in LoadAnswers, answer \in ResolveAnswers :
         Finish("resolve_exports",
                [uses_local_node_modules_dir |-> uses_local_node_modules_dir,
                 modules_path |-> modules_path, name |-> name, expansion |-> expansion],
                [in_npm_package |-> in_npm, doc |-> doc],
                op_require_resolve_exports(uses_local_node_modules_dir, modules_path,
                                           name, expansion, in_npm, doc, answer))

ReadClosestPackageJson ==
    /\ pc = "idle"
    /\ \E filename \in FilePaths, granted \in BOOLEAN, doc \in LoadAnswers :
         Finish("read_closest_package_json", [path |-> filename],
                [granted |-> granted, doc |-> doc],
                op_require_read_closest_package_json(filename, granted, doc))

ReadPackageScope ==
    /\ pc = "idle"
    /\ \E dir \in FilePaths, doc \in LoadAnswers :
         Finish("read_package_scope", [path |-> Join(dir, PackageJsonName)],
                [doc |-> doc],
                op_require_read_package_scope(Join(dir, PackageJsonName), doc))

PackageImportsResolve ==
    /\ pc = "idle"
    /\ \E parent_filename \in FilePaths, request \in SelfRequests,
          granted \in BOOLEAN, doc \in LoadAnswers, answer \in ResolveAnswers :
         Finish("package_imports_resolve",
                [path |-> parent_filename, request |-> request],
                [granted |-> granted, doc |-> doc],
                op_require_package_imports_resolve(parent_filename, request, granted,
                                                   doc, answer))

\* ---------------------------------------------------------------- the host
ParentPathLists ==
    {None, Some(<<>>), Some(<< <<"/", "n">> >>),
     Some(<< <<"/", "n">>, <<"/", "a", "/", "n">> >>),
     Some(<< <<"/", "a", "/", "n">>, <<"/", "n">> >>)}
\* a parent without a filename reaches the operation as ""
ParentFilenames == {<<>>, <<"/">>, <<"/", "a">>, <<"/", "a", "/", "b">>}

ResolveLookupPaths ==
    /\ pc = "idle"
    /\ \E request \in Requests, maybe_parent_paths \in ParentPathLists,
          parent_filename \in ParentFilenames :
         Finish("resolve_lookup_paths",
                [request |-> request, parent_paths |-> maybe_parent_paths,
                 parent_filename |-> parent_filename],
                <<>>,
                op_require_resolve_lookup_paths(request, maybe_parent_paths,
                                                parent_filename))

Init ==
    /\ pc = "idle"
    /\ op = "none"
    /\ args = <<>>
    /\ env = <<>>
    /\ result = Pending
    /\ log = <<>>
    /\ puts = 0
    /\ paths = <<>>
    /\ maybe_parent = None

\* The operation has returned to the JS bridge, which may call the next one.
Return ==
    /\ pc = "done"
    /\ pc' = "idle"
    /\ op' = "none"
    /\ args' = <<>>
    /\ env' = <<>>
    /\ result' = Pending
    /\ log' = <<>>
    /\ puts' = 0
    /\ paths' = <<>>
    /\ maybe_parent' = None

Next ==
    \/ NodeModulePathsCall
    \/ NodeModulePathsWalk
    \/ NodeModulePathsReturn
    \/ IsRequestRelative
    \/ PathResolve
    \/ Stat
    \/ RealPath
    \/ ReadFile
    \/ ResolveDenoDir
    \/ TrySelfParentPath
    \/ TrySelf
    \/ ResolveExports
    \/ ReadClosestPackageJson
    \/ ReadPackageScope
    \/ PackageImportsResolve
    \/ ResolveLookupPaths
    \/ Return

Spec == Init /\ [][Next]_vars

Done(o) == pc = "done" /\ op = o

\* C1: node_module_paths("/a/b/c") returns exactly the four entries
\* /a/b/c/node_modules, /a/b/node_modules, /a/node_modules, /node_modules.
C1_FourEntries ==
    (Done("node_module_paths") /\ args.from = FromSegs(<< <<"a">>, <<"b">>, <<"c">> >>)
        /\ result.tag = "Ok")
    => result.val = << FromSegs(<< <<"a">>, <<"b">>, <<"c">>, NodeModules >>),
                       FromSegs(<< <<"a">>, <<"b">>, NodeModules >>),
                       FromSegs(<< <<"a">>, NodeModules >>),
                       RootNodeModules >>

\* the directory an entry lies in has basename `node_modules`
ParentIsNodeModules(entry) ==
    /\ Parent(entry).some
    /\ FileName(Parent(entry).val) = Some(NodeModules)

\* C2: no entry of a returned list has the form X/node_modules/node_modules:
\* an ancestor named `node_modules` contributes no entry.
C2_NoNestedNodeModules ==
    (Done("node_module_paths") /\ result.tag = "Ok")
    => \A i \in 1..Len(result.val) : ~ParentIsNodeModules(result.val[i])

\* C3: node_module_paths runs to completion: while the walk over the ancestors
\* is under way, it can take a step that changes its state (it moves to the next
\* ancestor or leaves the loop), also at and below /node_modules.
C3_WalkCompletes ==
    pc = "walk" => ENABLED <<NodeModulePathsWalk \/ NodeModulePathsReturn>>_vars

\* -------------------------------------------------------------------- C4
GatedOps == {"node_module_paths", "stat", "real_path", "read_file", "package_imports_resolve"}
Accesses == {"metadata", "canonicalize", "read_to_string", "load", "package_imports_resolve"}
Calls == 1..Len(log)
GateAt(i) == log[i].ev = "ensure_read_permission" /\ log[i].path = args.path

Surfacing ==
    {"ensure_read_permission", "load", "get_package_scope_config",
     "get_closest_package_json", "package_exports_resolve", "package_imports_resolve",
     "resolve_package_folder_from_package"}
Failed(i) == log[i].ev \in Surfacing /\ log[i].out.tag = "Err"
Surfaced(i) == result.tag = "Err" /\ result.err = log[i].out.err
Absorbs(o, ev) ==
    \/ o = "try_self" /\ ev = "get_package_scope_config"
    \/ o = "read_package_scope" /\ ev = "load"
    \/ o = "resolve_npm_package_folder" /\ ev = "resolve_package_folder_from_package"

\* C5 as claimed: every permission refusal, package.json load failure, package
\* scope lookup failure and resolver failure inside an operation is the error
\* the operation returns; none becomes a successful absent result.
C5_ErrorsSurface ==
    pc = "done" => \A i \in Calls : Failed(i) => Surfaced(i)

\* C5 as amended: such a failure is the error the operation returns, except in
\* three places, where it becomes the successful absent result None: try_self
\* for a failing package scope lookup, read_package_scope for a failing
\* PackageJson load, resolve_npm_package_folder for a failing npm-resolver call.
C5_ErrorsSurfaceOrAbsent ==
    pc = "done"
    => \A i \in Calls :
         Failed(i) => IF Absorbs(op, log[i].ev)
                      THEN result.tag = "Ok" /\ result.val = None
                      ELSE Surfaced(i)

C5_ScopeLookupFailed ==
    /\ Done("try_self")
    /\ \E i \in Calls : Failed(i) /\ log[i].ev = "get_package_scope_config"

\* -------------------------------------------------------------------- C6
\* C6: off Windows, is_request_relative(request) is true exactly when request
\* begins with "./" or "../" or equals ".."; "./x" and ".." are relative,
\* "x", ".", ".x", "..x", ".\x" and "..\x" are not.
C6_RelativeIff ==
    Done("is_request_relative")
    => LET r == args.request
       IN  /\ result.val <=> \/ (Len(r) >= 2 /\ r[1] = "." /\ r[2] = "/")
                             \/ (Len(r) >= 3 /\ r[1] = "." /\ r[2] = "." /\ r[3] = "/")
                             \/ r = <<".", ".">>
           /\ r \in {<<".", "/", "x">>, <<".", ".">>} => result.val
           /\ r \in {<<"x">>, <<".">>, <<".", "x">>, <<".", ".", "x">>,
                     <<".", "\\", "x">>, <<".", ".", "\\", "x">>} => ~result.val

C6_DotDot == Done("is_request_relative") /\ args.request = <<".", ".">> /\ result.val

\* -------------------------------------------------------------------- C7
\* The sequential join and its normalization, on lists of segments: an absolute
\* part starts over, "" and "." segments vanish, ".." removes the segment before
\* it (none at the root or at the start of a relative path).
RECURSIVE JoinedSegs(_, _)
JoinedSegs(acc, parts) ==
    IF parts = <<>> THEN acc
    ELSE LET part == Head(parts)
         IN  JoinedSegs(IF part # <<>> /\ part[1] = "/"
                        THEN [abs |-> TRUE, segs |-> SplitSlash(part)]
                        ELSE [abs |-> acc.abs, segs |-> acc.segs \o SplitSlash(part)],
                        Tail(parts))

RECURSIVE Lexical(_, _)
Lexical(stack, segs) ==
    IF segs = <<>> THEN stack
    ELSE LET seg == Head(segs)
         IN  Lexical(IF seg = <<>> \/ seg = <<".">> THEN stack
                     ELSE IF seg = <<".", ".">>
                     THEN (IF stack = <<>> THEN stack ELSE SubSeq(stack, 1, Len(stack) - 1))
                     ELSE Append(stack, seg),
                     Tail(segs))

RECURSIVE Render(_)
Render(stack) ==
    IF stack = <<>> THEN <<>>
    ELSE IF Len(stack) = 1 THEN stack[1]
    ELSE stack[1] \o <<"/">> \o Render(Tail(stack))

NormalizedJoin(parts) ==
    LET j == JoinedSegs([abs |-> FALSE, segs |-> <<>>], parts)
    IN  (IF j.abs THEN <<"/">> ELSE <<>>) \o Render(Lexical(<<>>, j.segs))

\* C7: path_resolve(xs) is the normalization of the left-to-right join of the
\* parts, an absolute part discarding what was joined before it, and resolving
\* the result again changes nothing.
C7_NormalizedJoinIdempotent ==
    Done("path_resolve")
    => /\ result.val = NormalizedJoin(args.parts)
       /\ path_resolve(<<result.val>>) = result.val

C7_AbsolutePartDiscards ==
    /\ Done("path_resolve")
    /\ Len(args.parts) = 2
    /\ args.parts[1] = <<"a">>
    /\ args.parts[2] = <<"/", "a">>
    /\ result.val = <<"/", "a">>

\* -------------------------------------------------------------------- C8
NoImports ==
    /\ Done("package_imports_resolve")
    /\ env.granted
    /\ env.doc.tag = "Ok"
    /\ ~env.doc.imports.some

\* C8 as claimed: package_imports_resolve for a parent whose package.json has no
\* `imports` fails with PackageImportNotDefined.
C8_NoImportsFails ==
    NoImports => (result.tag = "Err" /\ result.err.kind = "PackageImportNotDefined")

\* C8 as amended: for a parent whose package.json has no `imports` the operation
\* returns the successful absent result None and never calls the imports
\* resolver; PackageImportNotDefined comes out of the operation only when the
\* package.json has an `imports` field.
C8_NoImportsIsAbsent ==
    /\ NoImports
       => /\ result.tag = "Ok" /\ result.val = None
          /\ \A i \in Calls : log[i].ev # "package_imports_resolve"
    /\ (Done("package_imports_resolve") /\ result.tag = "Err"
            /\ result.err.kind = "PackageImportNotDefined")
       => (env.doc.tag = "Ok" /\ env.doc.imports.some)

C8_HashRequestNoImports == NoImports /\ args.request[1] = "#"

\* -------------------------------------------------------------------- C9
\* C9: with read permission, stat returns 0 exactly for a file, 1 exactly for a
\* directory and -1 exactly when the metadata lookup fails, and never an error.
C9_StatKinds ==
    (Done("stat") /\ env.granted)
    => /\ result.tag = "Ok"
       /\ result.val = 0 <=> env.metadata = "file"
       /\ result.val = 1 <=> env.metadata = "dir"
       /\ result.val = -1 <=> env.metadata \in {"NotFound", "Denied"}

\* -------------------------------------------------------------------- C10
\* C10: resolve_exports takes modules_path itself as the package root exactly when
\* modules_path is in an npm package and no local node_modules dir is in use, and
\* path_resolve([modules_path, name]) otherwise; it loads <root>/package.json, and
\* a package.json without `exports` gives None with no resolution attempted.
C10_PackageRoot ==
    Done("resolve_exports")
    => LET verbatim == env.in_npm_package /\ ~args.uses_local_node_modules_dir
           root == IF verbatim THEN args.modules_path
                   ELSE NormalizedJoin(<<args.modules_path, args.name>>)
           loads == {i \in Calls : log[i].ev = "load"}
       IN  /\ Cardinality(loads) = 1
           /\ \A i \in loads :
                /\ log[i].path = root \o <<"/">> \o PackageJsonName
                /\ verbatim <=> log[i].path = args.modules_path \o <<"/">> \o PackageJsonName
           /\ (env.doc.tag = "Ok" /\ ~env.doc.exports.some)
              => /\ result.tag = "Ok" /\ result.val = None
                 /\ \A i \in Calls : log[i].ev # "package_exports_resolve"

C10_NpmPackageWithLocalDir ==
    /\ Done("resolve_exports")
    /\ env.in_npm_package
    /\ args.uses_local_node_modules_dir
    /\ env.doc.tag = "Ok"
    /\ ~env.doc.exports.some
    /\ log[2].path = args.modules_path \o <<"/">> \o args.name \o <<"/">> \o PackageJsonName

\* -------------------------------------------------------------------- C11
ExportsCalls == {i \in Calls : log[i].ev = "package_exports_resolve"}
SelfReference(request, name) ==
    \/ request = name
    \/ /\ Len(request) > Len(name)
       /\ \A k \in 1..Len(name) : request[k] = name[k]
       /\ request[Len(name) + 1] = "/"
Delegating ==
    /\ args.parent_path.some
    /\ env.scope.tag = "Ok"
    /\ env.scope.name.some
    /\ env.scope.exports.some
    /\ SelfReference(args.request, env.scope.name.val)

\* C11: try_self hands the request to package_exports_resolve exactly when
\* parent_path is given, the package scope has a name and exports, and request is
\* the name or begins with name + "/"; otherwise it returns None.  The subpath
\* handed over is "." for the name itself and "." followed by the rest of the
\* request otherwise, so it is "." or begins with "./"; a request that only
\* shares the name as a prefix ("fb" for the package "f") is no self-reference.
C11_SelfReferenceOnly ==
    Done("try_self")
    => /\ (ExportsCalls # {}) <=> Delegating
       /\ ~Delegating => (result.tag = "Ok" /\ result.val = None)
       /\ \A i \in ExportsCalls :
            LET name == env.scope.name.val
                subpath == log[i].path
            IN  /\ args.request = name => subpath = <<".">>
                /\ args.request # name
                   => subpath = <<".">> \o SubSeq(args.request, Len(name) + 1,
                                                  Len(args.request))
                /\ subpath = <<".">> \/ StartsWith(subpath, <<".", "/">>)
       /\ args.request = <<"f", "b">> => ExportsCalls = {}

C11_SubpathOfSelfReference ==
    /\ Done("try_self")
    /\ args.request = <<"f", "/", "x">>
    /\ \E i \in ExportsCalls : log[i].path = <<".", "/", "x">>

\* -------------------------------------------------------------------- C12
ImportsResolved ==
    /\ env.granted
    /\ env.doc.tag = "Ok"
    /\ env.doc.imports.some

\* C12 as claimed: package_imports_resolve puts the npm-resolver back into the
\* state store when, and only when, it returns a successfully resolved URL.
C12_PutOnSuccessOnly ==
    Done("package_imports_resolve")
    => (puts > 0 <=> (result.tag = "Ok" /\ result.val.some))

\* C12 as amended: the npm-resolver is put back, once, when and only when the
\* loaded package.json has an `imports` field, that is on every path on which
\* package_imports_resolve was called, whether it returned a URL or an error;
\* not on the permission-denied, load-failure and no-imports paths.
C12_PutWheneverResolved ==
    Done("package_imports_resolve")
    => /\ puts = (IF ImportsResolved THEN 1 ELSE 0)
       /\ puts > 0 <=> \E i \in Calls : log[i].ev = "package_imports_resolve"
       /\ (result.tag = "Ok" /\ result.val.some) => puts = 1

C12_PutOnResolverError ==
    /\ Done("package_imports_resolve")
    /\ result.tag = "Err"
    /\ \E i \in Calls : log[i].ev = "package_imports_resolve" /\ log[i].out.tag = "Err"
    /\ puts = 1

\* -------------------------------------------------------------------- C13
\* a request that is looked up in parent_paths: not starting with ".", or longer
\* than one character and starting with neither ".." nor "./"
LooksInParentPaths(r) ==
    \/ r = <<>>
    \/ r[1] # "."
    \/ /\ Len(r) > 1
       /\ r[2] # "."
       /\ r[2] # "/"

\* C13: resolve_lookup_paths never returns an empty list.  For a request looked
\* up in parent_paths it returns parent_paths unchanged when that is present and
\* non-empty and None otherwise, whatever parent_filename is; for every other
\* request it returns exactly [dirname(parent_filename)], whatever parent_paths is.
C13_LookupPaths ==
    Done("resolve_lookup_paths")
    => IF LooksInParentPaths(args.request)
       THEN /\ result.tag = "Ok"
            /\ IF args.parent_paths.some /\ args.parent_paths.val # <<>>
               THEN result.val = Some(args.parent_paths.val)
               ELSE result.val = None
       ELSE /\ result.tag = "Ok"
            /\ result.val.some
            /\ Len(result.val.val) = 1
            /\ Parent(args.parent_filename) = Some(result.val.val[1])

====
